---- MODULE Spec2Model ----
(***************************************************************************)
(* Model of the analysis server of AICodeAnalyzer: the in-memory store     *)
(* (server/storage.ts, MemStorage) and the routes registered by            *)
(* registerRoutes (POST /api/analyze, GET /api/analyses), in the variant    *)
(* that has the rate gate, the cache lookup, the five-prefix line counter   *)
(* and the JSON-then-regex response normalizer.                             *)
(*                                                                          *)
(* A JavaScript string is a sequence of one-character strings.              *)
(***************************************************************************)
EXTENDS Integers, Sequences, FiniteSets, TLC

VARIABLES
    \* ---- the server (Spec)
    now,            \* Date.now(), in milliseconds
    ticks,          \* how often the clock has advanced
    apiKey,         \* whether GEMINI_API_KEY or GOOGLE_API_KEY was set at start
    lastAnalysisAt, \* the rate gate's mark
    analyses,       \* MemStorage.analyses: the records in insertion order
    currentId,      \* MemStorage.currentId
    reqs,           \* the POST /api/analyze requests, in order of arrival
    modelCalls,     \* outbound model calls issued so far
    replies,        \* how the outbound call of each request ended, "none" so far
    listing,        \* body of the last GET /api/analyses response
    listedAt,       \* number of records stored when it was produced, -1 if none
    \* ---- normalizer runs (SpecNorm)
    normInput,      \* what the raw model text was built from
    normText,       \* the raw model text handed to the normalizer
    normResult,     \* what the normalizer returned (threw = TRUE: it threw)
    normPc,         \* "ready" | "done"
    \* ---- line counter runs (SpecLoc)
    locInput,       \* the structured lines the code string was built from
    locCode,        \* the code string handed to the line counter
    locResult,      \* linesOfCode computed for it, or -1 before the run
    locPc           \* "ready" | "done"

locVars == << locInput, locCode, locResult, locPc >>

normVars == << normInput, normText, normResult, normPc >>

srvVars == << now, ticks, apiKey, lastAnalysisAt, analyses, currentId, reqs,
             modelCalls, replies, listing, listedAt >>

vars == << now, ticks, apiKey, lastAnalysisAt, analyses, currentId, reqs,
           modelCalls, replies, listing, listedAt,
           normInput, normText, normResult, normPc,
           locInput, locCode, locResult, locPc >>

\* ------------------------------------------------------------------------
\* String helpers (String.prototype.trim / split / startsWith)
\* ------------------------------------------------------------------------

\* Characters String.prototype.trim removes and \s matches (those the model uses).
WhiteSpace == { " ", "\t", "\n", "\r" }

\* Characters the regular expression dot does not match.
LineTerminators == { "\n", "\r" }

SetMin(S) == CHOOSE x \in S : \A y \in S : x <= y

SetMax(S) == CHOOSE x \in S : \A y \in S : x >= y

\* s.startsWith(p)
StartsWith(s, p) ==
    /\ Len(s) >= Len(p)
    /\ SubSeq(s, 1, Len(p)) = p

\* s.trim()
Trim(s) ==
    LET keep == { i \in 1..Len(s) : s[i] \notin WhiteSpace }
    IN  IF keep = {} THEN << >> ELSE SubSeq(s, SetMin(keep), SetMax(keep))

\* s.split("\n"): always at least one piece
RECURSIVE SplitLines(_)
SplitLines(s) ==
    LET nl == { i \in 1..Len(s) : s[i] = "\n" }
    IN  IF nl = {} THEN << s >>
        ELSE LET i == SetMin(nl)
             IN  << SubSeq(s, 1, i - 1) >> \o SplitLines(SubSeq(s, i + 1, Len(s)))

\* ------------------------------------------------------------------------
\* JavaScript values and JSON.parse
\* ------------------------------------------------------------------------

\* A JavaScript value: t is its type; s the characters of a string, n the value
\* of a number or boolean (1 = true), kids the members of an object (records
\* [k, v]) or the elements of an array.
JsUndefined == [ t |-> "undefined", s |-> << >>, n |-> 0, kids |-> << >> ]

JsNull == [ t |-> "null", s |-> << >>, n |-> 0, kids |-> << >> ]

JsStr(chars) == [ t |-> "string", s |-> chars, n |-> 0, kids |-> << >> ]

JsNum(k) == [ t |-> "number", s |-> << >>, n |-> k, kids |-> << >> ]

JsBool(b) == [ t |-> "boolean", s |-> << >>, n |-> IF b THEN 1 ELSE 0, kids |-> << >> ]

JsArr(items) == [ t |-> "array", s |-> << >>, n |-> 0, kids |-> items ]

JsObj(members) == [ t |-> "object", s |-> << >>, n |-> 0, kids |-> members ]

\* Whitespace JSON allows between tokens.
JsonSpace == { " ", "\t", "\n", "\r" }

Digits == { "0", "1", "2", "3", "4", "5", "6", "7", "8", "9" }

DigitValue(c) == CHOOSE d \in 0..9 : ToString(d) = c

\* First index >= i of s that is not JSON whitespace (Len(s) + 1 if none).
SkipSpace(s, i) ==
    LET rest == { j \in i..Len(s) : s[j] \notin JsonSpace }
    IN  IF rest = {} THEN Len(s) + 1 ELSE SetMin(rest)

ParseFail == [ ok |-> FALSE, val |-> JsUndefined, next |-> 0 ]

ParseOk(v, nxt) == [ ok |-> TRUE, val |-> v, next |-> nxt ]

HasAt(s, i, lit) ==
    /\ i >= 1
    /\ i + Len(lit) - 1 <= Len(s)
    /\ SubSeq(s, i, i + Len(lit) - 1) = lit

\* The text between the quotes of a JSON string literal with its escapes
\* decoded; an unknown escape is a syntax error.
RECURSIVE Unescape(_)
Unescape(c) ==
    LET bs == { k \in 1..Len(c) : c[k] = "\\" }
        k  == SetMin(bs)
        e  == c[k + 1]
        d  == IF e = "n" THEN "\n" ELSE IF e = "t" THEN "\t"
              ELSE IF e = "r" THEN "\r" ELSE e
        r  == Unescape(SubSeq(c, k + 2, Len(c)))
    IN  IF bs = {} THEN [ ok |-> TRUE, s |-> c ]
        ELSE IF k = Len(c) \/ e \notin { "\"", "\\", "/", "n", "t", "r" }
             THEN [ ok |-> FALSE, s |-> << >> ]
        ELSE [ ok |-> r.ok, s |-> SubSeq(c, 1, k - 1) \o << d >> \o r.s ]

\* Whether the quote at j, inside a literal that starts at i, is escaped: an
\* odd number of backslashes stands directly before it.
QuoteEscaped(s, i, j) ==
    LET other == { k \in i..(j - 1) : s[k] # "\\" }
        first == IF other = {} THEN i ELSE SetMax(other) + 1
    IN  (j - first) % 2 = 1

\* The characters of a JSON string literal whose opening quote is before i:
\* a raw control character or an unknown escape is a syntax error.
ParseStringBody(s, i, acc) ==
    LET ends == { j \in i..Len(s) : s[j] = "\"" /\ ~QuoteEscaped(s, i, j) }
        j    == SetMin(ends)
        body == SubSeq(s, i, j - 1)
        u    == Unescape(body)
    IN  IF ends = {} THEN ParseFail
        ELSE IF \E k \in 1..Len(body) : body[k] \in { "\n", "\r", "\t" } THEN ParseFail
        ELSE IF ~u.ok THEN ParseFail
        ELSE ParseOk(JsStr(acc \o u.s), j + 1)

\* Value of the digits s[i..j].
RECURSIVE DigitsValue(_, _, _)
DigitsValue(s, i, j) ==
    IF j < i THEN 0 ELSE 10 * DigitsValue(s, i, j - 1) + DigitValue(s[j])

\* An integer literal at i: -?(0|[1-9][0-9]*). Fractions and exponents are
\* outside the texts the model generates.
ParseNumber(s, i) ==
    LET neg   == s[i] = "-"
        first == IF neg THEN i + 1 ELSE i
        stop  == { j \in first..Len(s) : s[j] \notin Digits }
        last  == IF stop = {} THEN Len(s) ELSE SetMin(stop) - 1
    IN  IF last < first THEN ParseFail
        ELSE IF s[first] = "0" /\ last > first THEN ParseFail
        ELSE IF last < Len(s) /\ s[last + 1] \in { ".", "e", "E" } THEN ParseFail
        ELSE ParseOk(JsNum((IF neg THEN -1 ELSE 1) * DigitsValue(s, first, last)),
                     last + 1)

RECURSIVE ParseValue(_, _)
RECURSIVE ParseElements(_, _, _)
RECURSIVE ParseMembers(_, _, _)

\* After an array element e, with j at the next token: "]" ends the array,
\* "," brings the next element.
ElementNext(s, items, j) ==
    IF j > Len(s) THEN ParseFail
    ELSE IF s[j] = "]" THEN ParseOk(JsArr(items), j + 1)
    ELSE IF s[j] = "," THEN ParseElements(s, j + 1, items)
    ELSE ParseFail

ElementEnd(s, acc, e) ==
    IF ~e.ok THEN ParseFail
    ELSE ElementNext(s, Append(acc, e.val), SkipSpace(s, e.next))

\* Elements of an array after "[" or ",": i is at the start of an element.
ParseElements(s, i, acc) == ElementEnd(s, acc, ParseValue(s, i))

\* After a member, with j at the next token: "}" ends the object, "," brings
\* the next member.
MemberNext(s, members, j) ==
    IF j > Len(s) THEN ParseFail
    ELSE IF s[j] = "}" THEN ParseOk(JsObj(members), j + 1)
    ELSE IF s[j] = "," THEN ParseMembers(s, j + 1, members)
    ELSE ParseFail

MemberEnd(s, acc, key, v) ==
    IF ~v.ok THEN ParseFail
    ELSE MemberNext(s, Append(acc, [ k |-> key, v |-> v.val ]), SkipSpace(s, v.next))

\* After the key, with c at the next token, which must be the colon.
MemberValue(s, acc, key, c) ==
    IF c > Len(s) \/ s[c] # ":" THEN ParseFail
    ELSE MemberEnd(s, acc, key, ParseValue(s, c + 1))

MemberKey(s, acc, ks) ==
    IF ~ks.ok THEN ParseFail
    ELSE MemberValue(s, acc, ks.val.s, SkipSpace(s, ks.next))

\* The key of a member, whose opening quote must be at k.
KeyAt(s, k) ==
    IF k <= Len(s) /\ s[k] = "\"" THEN ParseStringBody(s, k + 1, << >>)
    ELSE ParseFail

\* Members of an object after "{" or ",": i is at or before the key's quote.
ParseMembers(s, i, acc) == MemberKey(s, acc, KeyAt(s, SkipSpace(s, i)))

\* One JSON value starting at p, which is no whitespace.
ValueAt(s, p) ==
    IF p > Len(s) THEN ParseFail
    ELSE IF HasAt(s, p, << "n", "u", "l", "l" >>) THEN ParseOk(JsNull, p + 4)
    ELSE IF HasAt(s, p, << "t", "r", "u", "e" >>) THEN ParseOk(JsBool(TRUE), p + 4)
    ELSE IF HasAt(s, p, << "f", "a", "l", "s", "e" >>)
         THEN ParseOk(JsBool(FALSE), p + 5)
    ELSE IF s[p] = "\"" THEN ParseStringBody(s, p + 1, << >>)
    ELSE IF s[p] \in Digits \cup { "-" } THEN ParseNumber(s, p)
    ELSE IF s[p] = "[" THEN
        IF HasAt(s, SkipSpace(s, p + 1), << "]" >>)
        THEN ParseOk(JsArr(<< >>), SkipSpace(s, p + 1) + 1)
        ELSE ParseElements(s, p + 1, << >>)
    ELSE IF s[p] = "{" THEN
        IF HasAt(s, SkipSpace(s, p + 1), << "}" >>)
        THEN ParseOk(JsObj(<< >>), SkipSpace(s, p + 1) + 1)
        ELSE ParseMembers(s, p + 1, << >>)
    ELSE ParseFail

\* One JSON value starting at or after i.
ParseValue(s, i) == ValueAt(s, SkipSpace(s, i))

\* Only whitespace may follow the value.
WholeText(text, r) ==
    IF r.ok /\ SkipSpace(text, r.next) > Len(text) THEN r ELSE ParseFail

\* JSON.parse(text): ok = FALSE is the SyntaxError.
JsonParse(text) == WholeText(text, ParseValue(text, 1))

\* ------------------------------------------------------------------------
\* Response normalizer
\* ------------------------------------------------------------------------

\* The backtick, which a TLA+ string literal cannot hold, is the character "GRAVE".
Backtick == "GRAVE"

Fence == << Backtick, Backtick, Backtick >>

FenceJson == Fence \o << "j", "s", "o", "n" >>

\* Indices of s at which a fence starts.
FenceStarts(s) == { i \in 1..Len(s) : HasAt(s, i, Fence) }

\* text.replace(/<fence>json|<fence>/g, ""), deleting only the bare fence: the
\* tag of a tagged fence stays in the text.
RECURSIVE StripFences_FenceOnly(_)
StripFences_FenceOnly(s) ==
    LET at == FenceStarts(s)
        i  == SetMin(at)
    IN  IF at = {} THEN s
        ELSE SubSeq(s, 1, i - 1)
             \o StripFences_FenceOnly(SubSeq(s, i + Len(Fence), Len(s)))

\* text.replace(/<fence>json|<fence>/g, ""): scanning left to right, every
\* match is deleted; at a fence the first alternative is taken when it fits.
RECURSIVE StripFences(_)
StripFences(s) ==
    LET at  == FenceStarts(s)
        i   == SetMin(at)
        len == IF HasAt(s, i, FenceJson) THEN Len(FenceJson) ELSE Len(Fence)
    IN  IF at = {} THEN s
        ELSE SubSeq(s, 1, i - 1) \o StripFences(SubSeq(s, i + len, Len(s)))

UpperToLower ==
    ("A" :> "a") @@ ("B" :> "b") @@ ("C" :> "c") @@ ("D" :> "d") @@ ("E" :> "e") @@
    ("F" :> "f") @@ ("G" :> "g") @@ ("H" :> "h") @@ ("I" :> "i") @@ ("J" :> "j") @@
    ("K" :> "k") @@ ("L" :> "l") @@ ("M" :> "m") @@ ("N" :> "n") @@ ("O" :> "o") @@
    ("P" :> "p") @@ ("Q" :> "q") @@ ("R" :> "r") @@ ("S" :> "s") @@ ("T" :> "t") @@
    ("U" :> "u") @@ ("V" :> "v") @@ ("W" :> "w") @@ ("X" :> "x") @@ ("Y" :> "y") @@
    ("Z" :> "z")

\* Case folding of the i flag.
Lower(c) == IF c \in DOMAIN UpperToLower THEN UpperToLower[c] ELSE c

LowerAll(s) == [ i \in 1..Len(s) |-> Lower(s[i]) ]

\* The literal lit matches s at i, ignoring case.
HasAtNoCase(s, i, lit) ==
    /\ i + Len(lit) - 1 <= Len(s)
    /\ LowerAll(SubSeq(s, i, i + Len(lit) - 1)) = LowerAll(lit)

TimeLabel ==
    << "T", "i", "m", "e", " ", "C", "o", "m", "p", "l", "e", "x", "i", "t", "y", ":" >>

SpaceLabel ==
    << "S", "p", "a", "c", "e", " ", "C", "o", "m", "p", "l", "e", "x", "i", "t", "y", ":" >>

ExplanationLabel ==
    << "E", "x", "p", "l", "a", "n", "a", "t", "i", "o", "n", ":" >>

\* First index >= i of s that is not whitespace (Len(s) + 1 if none): greedy \s*.
SkipWhite(s, i) ==
    LET rest == { j \in i..Len(s) : s[j] \notin WhiteSpace }
    IN  IF rest = {} THEN Len(s) + 1 ELSE SetMin(rest)

NoMatch == [ found |-> FALSE, group |-> << >> ]

\* The attempt below with a capture that runs to the last ")" of the text.
ComplexityAt_Greedy(s, i, label) ==
    LET o     == SkipWhite(s, i + Len(label))
        close == { j \in (o + 3)..Len(s) : s[j] = ")" }
    IN  IF /\ HasAtNoCase(s, i, label)
           /\ HasAtNoCase(s, o, << "O", "(" >>)
           /\ close # {}
        THEN [ found |-> TRUE, group |-> SubSeq(s, o, SetMax(close)) ]
        ELSE NoMatch

\* An attempt of /<label>\s*(O\([^)]+\))/i at start index i: after the label and
\* the whitespace come O, (, one or more characters that are not ")", and ")".
ComplexityAt(s, i, label) ==
    LET o     == SkipWhite(s, i + Len(label))
        close == { j \in (o + 2)..Len(s) : s[j] = ")" }
    IN  IF /\ HasAtNoCase(s, i, label)
           /\ HasAtNoCase(s, o, << "O", "(" >>)
           /\ close # {}
           /\ SetMin(close) > o + 2
        THEN [ found |-> TRUE, group |-> SubSeq(s, o, SetMin(close)) ]
        ELSE NoMatch

\* text.match(/<label>\s*(O\([^)]+\))/i): the leftmost start that matches.
MatchComplexity(s, label) ==
    LET hits == { i \in 1..Len(s) : ComplexityAt(s, i, label).found }
    IN  IF hits = {} THEN NoMatch ELSE ComplexityAt(s, SetMin(hits), label)

\* An attempt of /Explanation:\s*(.+)/i at start index i: \s* gives back
\* whitespace until a character the dot accepts follows; the group runs to the
\* end of that line.
ExplanationAt(s, i) ==
    LET p     == i + Len(ExplanationLabel)
        w     == SkipWhite(s, p)
        from  == { k \in p..w : k <= Len(s) /\ s[k] \notin LineTerminators }
        start == SetMax(from)
        stop  == { j \in start..Len(s) : s[j] \in LineTerminators }
        last  == IF stop = {} THEN Len(s) ELSE SetMin(stop) - 1
    IN  IF HasAtNoCase(s, i, ExplanationLabel) /\ from # {}
        THEN [ found |-> TRUE, group |-> SubSeq(s, start, last) ]
        ELSE NoMatch

\* text.match(/Explanation:\s*(.+)/i)
MatchExplanation(s) ==
    LET hits == { i \in 1..Len(s) : ExplanationAt(s, i).found }
    IN  IF hits = {} THEN NoMatch ELSE ExplanationAt(s, SetMin(hits))

\* try { parsed = JSON.parse(text) } catch { parsed = {} }, given what
\* JSON.parse did.
ValueOrEmpty(r) == IF r.ok THEN r.val ELSE JsObj(<< >>)

\* What the try/catch around JSON.parse leaves in parsed.
ParsedOrEmpty(text) == ValueOrEmpty(JsonParse(text))

\* parsed.<key> for a non-null parsed value: the last member of that name of
\* an object; undefined for everything else.
GetField(parsed, key) ==
    LET at == IF parsed.t = "object"
              THEN { i \in 1..Len(parsed.kids) : parsed.kids[i].k = key }
              ELSE {}
    IN  IF at = {} THEN JsUndefined ELSE parsed.kids[SetMax(at)].v

\* a ?? b
Nullish(v) == v.t \in { "undefined", "null" }

Coalesce(a, b) == IF Nullish(a) THEN b ELSE a

KeyTime ==
    << "t", "i", "m", "e", "C", "o", "m", "p", "l", "e", "x", "i", "t", "y" >>

KeySpace ==
    << "s", "p", "a", "c", "e", "C", "o", "m", "p", "l", "e", "x", "i", "t", "y" >>

KeyExplanation ==
    << "e", "x", "p", "l", "a", "n", "a", "t", "i", "o", "n" >>

FallbackComplexity == << "O", "(", "?", ")" >>

FallbackExplanation ==
    << "A", "I", " ", "a", "n", "a", "l", "y", "s", "i", "s", " ",
       "u", "n", "a", "v", "a", "i", "l", "a", "b", "l", "e" >>

\* match?.[1] ?? fallback
GroupOr(m, fallback) == IF m.found THEN JsStr(m.group) ELSE JsStr(fallback)

\* Whether reading a property of parsed throws a TypeError.
PropertyReadThrows(parsed) == parsed.t \in { "null", "undefined" }

\* The normalizer guarded so that a null parse counts as {}.
NormalizeParsed_NullSafe(text, parsed) ==
    LET p == IF PropertyReadThrows(parsed) THEN JsObj(<< >>) ELSE parsed
    IN  [ threw           |-> FALSE,
          timeComplexity  |-> Coalesce(GetField(p, KeyTime),
                                  GroupOr(MatchComplexity(text, TimeLabel),
                                          FallbackComplexity)),
          spaceComplexity |-> Coalesce(GetField(p, KeySpace),
                                  GroupOr(MatchComplexity(text, SpaceLabel),
                                          FallbackComplexity)),
          explanation     |-> Coalesce(GetField(p, KeyExplanation),
                                  GroupOr(MatchExplanation(text),
                                          FallbackExplanation)) ]

\* The three assignments after JSON.parse; threw = TRUE when reading
\* parsed.timeComplexity throws.
NormalizeParsed(text, parsed) ==
    IF PropertyReadThrows(parsed)
    THEN [ threw |-> TRUE, timeComplexity |-> JsUndefined,
           spaceComplexity |-> JsUndefined, explanation |-> JsUndefined ]
    ELSE [ threw           |-> FALSE,
           timeComplexity  |-> Coalesce(GetField(parsed, KeyTime),
                                   GroupOr(MatchComplexity(text, TimeLabel),
                                           FallbackComplexity)),
           spaceComplexity |-> Coalesce(GetField(parsed, KeySpace),
                                   GroupOr(MatchComplexity(text, SpaceLabel),
                                           FallbackComplexity)),
           explanation     |-> Coalesce(GetField(parsed, KeyExplanation),
                                   GroupOr(MatchExplanation(text),
                                           FallbackExplanation)) ]

\* The fence stripping and trim applied to the raw model text.
CleanText(raw) == Trim(StripFences(raw))

\* The normalizer on the cleaned text.
NormalizeClean(text) == NormalizeParsed(text, ParsedOrEmpty(text))

\* The response normalizer: from the raw model text to the three fields.
Normalize(raw) == NormalizeClean(CleanText(raw))

\* ------------------------------------------------------------------------
\* Normalizer runs: the raw model texts and the run itself
\* ------------------------------------------------------------------------

\* The characters of a string as JSON writes them between the quotes: ", \ and
\* the control characters escaped.
RECURSIVE EscapeChars(_)
EscapeChars(chars) ==
    LET sp == { k \in 1..Len(chars) : chars[k] \in { "\"", "\\", "\n", "\t", "\r" } }
        k  == SetMin(sp)
        c  == chars[k]
        e  == IF c = "\n" THEN "n" ELSE IF c = "\t" THEN "t"
              ELSE IF c = "\r" THEN "r" ELSE c
    IN  IF sp = {} THEN chars
        ELSE SubSeq(chars, 1, k - 1) \o << "\\", e >>
             \o EscapeChars(SubSeq(chars, k + 1, Len(chars)))

RECURSIVE NatText(_)
NatText(k) ==
    LET d == CHOOSE c \in Digits : DigitValue(c) = k % 10
    IN  IF k < 10 THEN << d >> ELSE NatText(k \div 10) \o << d >>

RECURSIVE JsonText(_)
RECURSIVE JsonItems(_)

\* The elements of an array, comma separated.
JsonItems(items) ==
    IF items = << >> THEN << >>
    ELSE IF Len(items) = 1 THEN JsonText(items[1])
    ELSE JsonText(items[1]) \o << "," >> \o JsonItems(Tail(items))

\* JSON text of a value that is not an object.
JsonText(v) ==
    IF v.t = "string" THEN << "\"" >> \o EscapeChars(v.s) \o << "\"" >>
    ELSE IF v.t = "number"
         THEN (IF v.n < 0 THEN << "-" >> ELSE << >>)
              \o NatText(IF v.n < 0 THEN -v.n ELSE v.n)
    ELSE IF v.t = "boolean"
         THEN (IF v.n = 1 THEN << "t", "r", "u", "e" >>
               ELSE << "f", "a", "l", "s", "e" >>)
    ELSE IF v.t = "array" THEN << "[" >> \o JsonItems(v.kids) \o << "]" >>
    ELSE << "n", "u", "l", "l" >>

\* One member "key": value; style "pretty" puts a space after the colon.
MemberText(key, v, style) ==
    << "\"" >> \o key \o << "\"", ":" >>
    \o (IF style = "pretty" THEN << " " >> ELSE << >>) \o JsonText(v)

RECURSIVE JoinWith(_, _)
JoinWith(parts, sep) ==
    IF parts = << >> THEN << >>
    ELSE IF Len(parts) = 1 THEN parts[1]
    ELSE parts[1] \o sep \o JoinWith(Tail(parts), sep)

\* The sequence without its undefined entries.
Present(fields) ==
    LET F[i \in 0..Len(fields)] ==
            IF i = 0 THEN << >>
            ELSE IF fields[i].v.t = "undefined" THEN F[i - 1]
            ELSE Append(F[i - 1], fields[i])
    IN  F[Len(fields)]

\* JSON text of the object with the three fields; an undefined field is left out.
ObjectText(tc, sc, ex, style) ==
    LET fs    == Present(<< [ k |-> KeyTime, v |-> tc ], [ k |-> KeySpace, v |-> sc ],
                            [ k |-> KeyExplanation, v |-> ex ] >>)
        parts == [ i \in 1..Len(fs) |-> MemberText(fs[i].k, fs[i].v, style) ]
    IN  IF style = "pretty"
        THEN << "{", "\n", " ", " " >> \o JoinWith(parts, << ",", "\n", " ", " " >>)
             \o << "\n", "}" >>
        ELSE << "{" >> \o JoinWith(parts, << "," >>) \o << "}" >>

\* The label written by the model: as asked, or in lower case.
LabelText(label, style) == IF style = "lower" THEN LowerAll(label) ELSE label

\* The labelled lines of the fields that are present.
LabelledText(tc, sc, ex, style) ==
    LET gap   == IF style = "lower" THEN << >> ELSE << " " >>
        fs    == Present(<< [ k |-> TimeLabel, v |-> tc ], [ k |-> SpaceLabel, v |-> sc ],
                            [ k |-> ExplanationLabel, v |-> ex ] >>)
        parts == [ i \in 1..Len(fs) |-> LabelText(fs[i].k, style) \o gap \o fs[i].v.s ]
    IN  JoinWith(parts, << "\n" >>)

\* The body inside code-fence markers, with the tag after the opening fence.
Wrapped(body, wrap) ==
    IF wrap = "fence" THEN Fence \o << "\n" >> \o body \o << "\n" >> \o Fence
    ELSE IF wrap = "fenceJson"
         THEN Fence \o << "j", "s", "o", "n", "\n" >> \o body \o << "\n" >> \o Fence
    ELSE IF wrap = "fenceJs"
         THEN Fence \o << "j", "s", "\n" >> \o body \o << "\n" >> \o Fence
    ELSE body

Wraps == { "none", "fence", "fenceJson", "fenceJs" }

FenceWraps == Wraps \ { "none" }

\* Field values of the JSON objects the model answers with.
JsonTimeValues ==
    { JsUndefined, JsNull, JsNum(5),
      JsStr(<< >>), JsStr(<< "O", "(", "n", ")" >>), JsStr(<< "O", "(", "n", Backtick, Backtick, Backtick, ")" >>) }

JsonSpaceValues ==
    { JsUndefined, JsStr(<< "O", "(", "1", ")" >>), JsArr(<< JsNum(1) >>), JsBool(FALSE) }

JsonExplanationValues ==
    { JsUndefined, JsNull, JsStr(<< >>), JsStr(<< "l", "i", "n", "e", "a", "r", " ", "s", "c", "a", "n" >>),
      JsStr(<< "s", "a", "y", " ", "\"", "h", "i", "\"", "\n", "\\", "o", "k" >>), JsStr(<< "u", "s", "e", " ", Backtick, Backtick, Backtick, "j", "s", "o", "n", " ", "x" >>) }

\* JSON texts that are not objects.
JsonNonObjects ==
    { JsNull, JsNum(42), JsNum(-7), JsBool(TRUE), JsStr(<< "a", "b", "c" >>),
      JsArr(<< >>), JsArr(<< JsNum(1), JsStr(<< "a" >>) >>) }

\* Complexities and explanations written after the labels.
LabelledComplexities ==
    { JsUndefined, JsStr(<< "O", "(", "n", " ", "l", "o", "g", " ", "n", ")" >>), JsStr(<< "O", "(", "n", ")" >>),
      JsStr(<< "O", "(", "l", "o", "g", "(", "n", ")", ")" >>), JsStr(<< "O", "(", ")" >>), JsStr(<< "n" >>) }

LabelledSpaces ==
    { JsUndefined, JsStr(<< "O", "(", "n", ")" >>), JsStr(<< "O", "(", "n", "^", "2", ")" >>),
      JsStr(<< "O", "(", "E", "x", "p", "l", "a", "n", "a", "t", "i", "o", "n", ":", " ", "k", ")" >>) }

LabelledExplanations ==
    { JsUndefined, JsStr(<< "m", "e", "r", "g", "e", " ", "s", "o", "r", "t" >>), JsStr(<< "a", " ", "(", "b", ")", " ", "c" >>),
      JsStr(<< "u", "s", "e", " ", Backtick, Backtick, Backtick, "j", "s", "o", "n", " ", "x" >>), JsStr(<< "t", "w", "o", " ", " ", "w", "o", "r", "d", "s", " " >>) }

\* Texts without any label and without JSON.
RawTexts ==
    { << >>, << " ", "\n" >>, << "h", "e", "l", "l", "o", " ", "w", "o", "r", "l", "d" >>, << "{" >>, << "{", "\"", "t", "i", "m", "e", "C", "o", "m", "p", "l", "e", "x", "i", "t", "y", "\"", ":" >>,
      << "T", "i", "m", "e", " ", "C", "o", "m", "p", "l", "e", "x", "i", "t", "y", " ", "O", "(", "n", ")" >> }

NormInput(kind, tc, sc, ex, wrap, style) ==
    [ kind |-> kind, timeComplexity |-> tc, spaceComplexity |-> sc,
      explanation |-> ex, wrap |-> wrap, style |-> style ]

NormInputs ==
    { NormInput("object", tc, sc, ex, w, st) :
        tc \in JsonTimeValues, sc \in JsonSpaceValues, ex \in JsonExplanationValues,
        w \in Wraps, st \in { "compact", "pretty" } }
    \cup
    { NormInput("value", v, JsUndefined, JsUndefined, w, "compact") :
        v \in JsonNonObjects, w \in Wraps }
    \cup
    { NormInput("labelled", tc, sc, ex, "none", st) :
        tc \in LabelledComplexities, sc \in LabelledSpaces,
        ex \in LabelledExplanations, st \in { "exact", "lower" } }
    \cup
    { NormInput("raw", JsStr(t), JsUndefined, JsUndefined, w, "compact") :
        t \in RawTexts, w \in Wraps }

\* The raw model text an input stands for.
RenderInput(in) ==
    IF in.kind = "object"
    THEN Wrapped(ObjectText(in.timeComplexity, in.spaceComplexity, in.explanation,
                            in.style), in.wrap)
    ELSE IF in.kind = "value" THEN Wrapped(JsonText(in.timeComplexity), in.wrap)
    ELSE IF in.kind = "labelled"
    THEN LabelledText(in.timeComplexity, in.spaceComplexity, in.explanation, in.style)
    ELSE Wrapped(in.timeComplexity.s, in.wrap)

NoResult ==
    [ threw |-> FALSE, timeComplexity |-> JsUndefined,
      spaceComplexity |-> JsUndefined, explanation |-> JsUndefined ]

NormReady ==
    /\ normInput \in NormInputs
    /\ normText = RenderInput(normInput)
    /\ normResult = NoResult
    /\ normPc = "ready"

RunNormalize ==
    /\ normPc = "ready"
    /\ normResult' = Normalize(normText)
    /\ normPc' = "done"
    /\ UNCHANGED << normInput, normText, srvVars, locVars >>

\* ------------------------------------------------------------------------
\* Line counter
\* ------------------------------------------------------------------------

\* The filter that only knows the // comment opener.
IsMeaningfulLine_SlashOnly(line) ==
    LET t == Trim(line)
    IN  /\ t # << >>
        /\ ~StartsWith(t, << "/", "/" >>)

\* The filter applied to the line as it stands, without trimming it first.
IsMeaningfulLine_Untrimmed(line) ==
    /\ line # << >>
    /\ ~StartsWith(line, << "/", "/" >>)
    /\ ~StartsWith(line, << "#" >>)
    /\ ~StartsWith(line, << "/", "*" >>)
    /\ ~StartsWith(line, << "*" >>)

\* The filter callback of the line counter: t && !t.startsWith(...) for each prefix.
IsMeaningfulLine(line) ==
    LET t == Trim(line)
    IN  /\ t # << >>
        /\ ~StartsWith(t, << "/", "/" >>)
        /\ ~StartsWith(t, << "#" >>)
        /\ ~StartsWith(t, << "/", "*" >>)
        /\ ~StartsWith(t, << "*" >>)
        /\ ~StartsWith(t, << "*", "/" >>)

\* code.split("\n").filter(...).length
CountLines(code) ==
    LET lines == SplitLines(code)
    IN  Cardinality({ i \in 1..Len(lines) : IsMeaningfulLine(lines[i]) })

\* ---- inputs of the line counter runs ----

\* Most lines a generated code string has.
MaxLines == 2

\* Text of a line between its leading and trailing whitespace: comment openers,
\* blank, and code (also code that merely contains a comment opener).
CommentCores ==
    { << "/", "/", " ", "c" >>, << "#", "x" >>, << "/", "*", "c" >>,
      << "*", " ", "c" >>, << "*", "/" >>, << "*" >>, << "#" >> }

CodeCores ==
    { << "x", "=", "1" >>, << "a", " ", "/", "/", "b" >>, << "/" >>,
      << "-", "#" >>, << "x", "*", "/" >> }

LineCores == CommentCores \cup CodeCores \cup { << >> }

LinePads == { << >>, << " ", "\t" >> }

LineEnds == { << >>, << "\r" >> }

SourceLines == [ lead : LinePads, core : LineCores, trail : LineEnds ]

RenderLine(l) == l.lead \o l.core \o l.trail

RECURSIVE JoinLines(_)
JoinLines(ls) ==
    IF Len(ls) = 0 THEN << >>
    ELSE IF Len(ls) = 1 THEN RenderLine(ls[1])
    ELSE RenderLine(ls[1]) \o << "\n" >> \o JoinLines(Tail(ls))

LocInputs == UNION { [ 1..n -> SourceLines ] : n \in 1..MaxLines }

\* ------------------------------------------------------------------------
\* The store (MemStorage)
\* ------------------------------------------------------------------------

\* v ? ... : ... : whether a JavaScript value is falsy.
Falsy(v) ==
    \/ v.t \in { "undefined", "null" }
    \/ v.t = "string" /\ v.s = << >>
    \/ v.t \in { "number", "boolean" } /\ v.n = 0

\* createAnalysis: the record built from the insert, the next id and the time.
NewAnalysis(insert, id, time) ==
    [ id              |-> id,
      code            |-> insert.code,
      language        |-> insert.language,
      linesOfCode     |-> insert.linesOfCode,
      timeComplexity  |-> insert.timeComplexity,
      spaceComplexity |-> insert.spaceComplexity,
      explanation     |-> IF Falsy(insert.explanation) THEN JsNull
                          ELSE insert.explanation,
      createdAt       |-> time ]

\* Map.set(id, record): replaces the entry of that key in place, else appends.
MapSet(map, rec) ==
    IF \E i \in 1..Len(map) : map[i].id = rec.id
    THEN [ i \in 1..Len(map) |-> IF map[i].id = rec.id THEN rec ELSE map[i] ]
    ELSE Append(map, rec)

\* The comparator (a, b) => b.createdAt.getTime() - a.createdAt.getTime().
CompareRecent(a, b) == b.createdAt - a.createdAt

\* rec put into an already sorted sequence behind everything that does not
\* sort after it: Array.prototype.sort is stable.
InsertSorted(sorted, rec) ==
    LET before == { i \in 1..Len(sorted) : CompareRecent(sorted[i], rec) <= 0 }
        k      == IF before = {} THEN 0 ELSE SetMax(before)
    IN  SubSeq(sorted, 1, k) \o << rec >> \o SubSeq(sorted, k + 1, Len(sorted))

\* Array.from(values).sort(comparator)
SortRecent(recs) ==
    LET S[i \in 0..Len(recs)] ==
            IF i = 0 THEN << >> ELSE InsertSorted(S[i - 1], recs[i])
    IN  S[Len(recs)]

\* getRecentAnalyses(limit): sort, then slice(0, limit).
GetRecentAnalyses(map, limit) ==
    LET sorted == SortRecent(map)
    IN  SubSeq(sorted, 1, IF Len(sorted) < limit THEN Len(sorted) ELSE limit)

\* The limit the listing endpoint passes.
RecentLimit == 10

\* storage.findByCode?.(code): MemStorage has no findByCode, so the optional
\* call evaluates to undefined whatever is stored.
FindByCode(map, code) == JsUndefined

\* ------------------------------------------------------------------------
\* POST /api/analyze and GET /api/analyses
\* ------------------------------------------------------------------------

RATE_LIMIT_MS == 3000

\* The gate with an inclusive window.
RateGateRejects_Inclusive(time, last) == time - last <= RATE_LIMIT_MS

\* now - lastAnalysisAt < RATE_LIMIT_MS
RateGateRejects(time, last) == time - last < RATE_LIMIT_MS

\* The credential check left out.
CredentialMissing_Never(key) == FALSE

\* !apiKey
CredentialMissing(key) == ~key

\* analyzeCodeSchema.parse(req.body) succeeds: both fields are non-empty.
ValidBody(body) == body.code # << >> /\ body.language # << >>

NoBody ==
    [ linesOfCode |-> -1, timeComplexity |-> JsUndefined,
      spaceComplexity |-> JsUndefined, explanation |-> JsUndefined ]

\* ---- bounds and inputs of the server runs ----

\* Date.now() when the server starts: far more than RATE_LIMIT_MS past the epoch.
StartTime == 10000

\* Most clock advances in a run.
MaxTicks == 2

\* Most POST /api/analyze requests in a run.
MaxReqs == 3

\* Clock advances, in milliseconds: within one window, and up to its end.
ClockSteps == { 1, RATE_LIMIT_MS - 1 }

CodeA == << "x", "=", "1", "\n", "/", "/", " ", "c" >>

CodeB == << "#", "x" >>

LangJs == << "j", "s" >>

Bodies ==
    { [ code |-> CodeA, language |-> LangJs ], [ code |-> CodeB, language |-> LangJs ],
      [ code |-> << >>, language |-> LangJs ] }

\* Raw texts the model answers with in the server runs.
GoodJsonText ==
    Wrapped(ObjectText(JsStr(<< "O", "(", "n", ")" >>), JsStr(<< "O", "(", "1", ")" >>), JsStr(<< "l", "i", "n", "e", "a", "r", " ", "s", "c", "a", "n" >>), "compact"),
            "fenceJson")

NullText == << "n", "u", "l", "l" >>

\* A JSON object whose explanation is the empty string.
EmptyExplanationText ==
    ObjectText(JsStr(<< "O", "(", "n", ")" >>), JsStr(<< "O", "(", "1", ")" >>),
               JsStr(<< >>), "compact")

\* How the outbound call ends: the fetch rejects (network); the provider
\* answers with a status that is not 2xx (non2xx: a server error, quota: 429
\* for an exhausted quota), whose body is a JSON error envelope without
\* candidates or, from a gateway, no JSON at all; or it answers 200 with
\* candidates whose first part holds the text.
ModelOutcomes ==
    { [ kind |-> "network", json |-> FALSE, text |-> << >> ],
      [ kind |-> "non2xx", json |-> TRUE, text |-> << >> ],
      [ kind |-> "non2xx", json |-> FALSE, text |-> << >> ],
      [ kind |-> "quota", json |-> TRUE, text |-> << >> ],
      [ kind |-> "ok", json |-> TRUE, text |-> GoodJsonText ],
      [ kind |-> "ok", json |-> TRUE, text |-> NullText ],
      [ kind |-> "ok", json |-> TRUE, text |-> EmptyExplanationText ] }

\* data?.candidates?.[0]?.content?.parts?.[0]?.text ?? ""
EnvelopeText(outcome) == IF outcome.kind = "ok" THEN outcome.text ELSE << >>

\* The normalizer's answer to each outcome's text, and the line count of each
\* body's code (tables of the two pure functions over the inputs of the runs).
NormalizedOutcome == [ o \in ModelOutcomes |-> Normalize(EnvelopeText(o)) ]

LinesOfBody == [ b \in Bodies |-> CountLines(b.code) ]


NormIdle ==
    /\ normInput = NormInput("raw", JsStr(<< >>), JsUndefined, JsUndefined,
                             "none", "compact")
    /\ normText = << >>
    /\ normResult = NoResult
    /\ normPc = "idle"

LocIdle ==
    /\ locInput = << >>
    /\ locCode = << >>
    /\ locResult = -1
    /\ locPc = "idle"

SrvIdle ==
    /\ now = StartTime
    /\ ticks = 0
    /\ apiKey = TRUE
    /\ lastAnalysisAt = 0
    /\ analyses = << >>
    /\ currentId = 1
    /\ reqs = << >>
    /\ modelCalls = 0
    /\ replies = << >>
    /\ listing = << >>
    /\ listedAt = -1

\* The state after the modules are loaded and registerRoutes has run.
Init ==
    /\ now = StartTime
    /\ ticks = 0
    /\ apiKey \in BOOLEAN
    /\ lastAnalysisAt = 0
    /\ analyses = << >>
    /\ currentId = 1
    /\ reqs = << >>
    /\ modelCalls = 0
    /\ replies = << >>
    /\ listing = << >>
    /\ listedAt = -1
    /\ NormIdle
    /\ LocIdle

\* Time passes.
Tick ==
    /\ ticks < MaxTicks
    /\ \E d \in ClockSteps : now' = now + d
    /\ ticks' = ticks + 1
    /\ UNCHANGED << apiKey, lastAnalysisAt, analyses, currentId, reqs, modelCalls,
                    replies, listing, listedAt, normVars, locVars >>

Request(body, time, pc, status, result, loc, calls, prior) ==
    [ body |-> body, now |-> time, pc |-> pc, status |-> status, result |-> result,
      linesOfCode |-> loc, calls |-> calls, created |-> 0, prior200 |-> prior,
      responses |-> IF pc = "done" THEN 1 ELSE 0 ]

\* Arrive with the credential check ahead of the body validation.
Arrive_CredentialFirst ==
    \E body \in Bodies :
        LET prior == \E j \in 1..Len(reqs) :
                         reqs[j].body.code = body.code /\ reqs[j].status = 200
        IN
        /\ Len(reqs) < MaxReqs
        /\ replies' = Append(replies, "none")
        /\ IF RateGateRejects(now, lastAnalysisAt)
           THEN /\ reqs' = Append(reqs, Request(body, now, "done", 429, NoBody, -1, 0, prior))
                /\ UNCHANGED << lastAnalysisAt, modelCalls >>
           ELSE /\ lastAnalysisAt' = now
                /\ IF CredentialMissing(apiKey)
                   THEN /\ reqs' = Append(reqs, Request(body, now, "done", 400, NoBody,
                                                        -1, 0, prior))
                        /\ UNCHANGED modelCalls
                   ELSE IF ~ValidBody(body)
                   THEN /\ reqs' = Append(reqs, Request(body, now, "done", 500, NoBody,
                                                        -1, 0, prior))
                        /\ UNCHANGED modelCalls
                   ELSE /\ reqs' = Append(reqs, Request(body, now, "fetching", 0, NoBody,
                                                        LinesOfBody[body], 1, prior))
                        /\ modelCalls' = modelCalls + 1
        /\ UNCHANGED << now, ticks, apiKey, analyses, currentId, listing, listedAt,
                        normVars, locVars >>

\* Arrive with the gate's mark only read before the first await: the write
\* of the mark is left to a later step of the handler.
Arrive_MarkNotSet ==
    \E body \in Bodies :
        LET prior == \E j \in 1..Len(reqs) :
                         reqs[j].body.code = body.code /\ reqs[j].status = 200
        IN
        /\ Len(reqs) < MaxReqs
        /\ replies' = Append(replies, "none")
        /\ IF RateGateRejects(now, lastAnalysisAt)
           THEN /\ reqs' = Append(reqs, Request(body, now, "done", 429, NoBody, -1, 0, prior))
                /\ UNCHANGED modelCalls
           ELSE IF ~ValidBody(body)
           THEN /\ reqs' = Append(reqs, Request(body, now, "done", 500, NoBody,
                                                -1, 0, prior))
                /\ UNCHANGED modelCalls
           ELSE IF CredentialMissing(apiKey)
           THEN /\ reqs' = Append(reqs, Request(body, now, "done", 400, NoBody,
                                                -1, 0, prior))
                /\ UNCHANGED modelCalls
           ELSE /\ reqs' = Append(reqs, Request(body, now, "fetching", 0, NoBody,
                                                LinesOfBody[body], 1, prior))
                /\ modelCalls' = modelCalls + 1
        /\ UNCHANGED << now, ticks, apiKey, lastAnalysisAt, analyses, currentId,
                        listing, listedAt, normVars, locVars >>

\* POST /api/analyze from its start to the outbound fetch: the rate gate, the
\* body validation (a failure is thrown into the catch block), the credential
\* check, the cache lookup and the line count.
Arrive ==
    \E body \in Bodies :
        LET prior == \E j \in 1..Len(reqs) :
                         reqs[j].body.code = body.code /\ reqs[j].status = 200
            existing == FindByCode(analyses, body.code)
        IN
        /\ Len(reqs) < MaxReqs
        /\ replies' = Append(replies, "none")
        /\ IF RateGateRejects(now, lastAnalysisAt)
           THEN /\ reqs' = Append(reqs, Request(body, now, "done", 429, NoBody, -1, 0, prior))
                /\ UNCHANGED << lastAnalysisAt, modelCalls >>
           ELSE /\ lastAnalysisAt' = now
                /\ IF ~ValidBody(body)
                   THEN /\ reqs' = Append(reqs, Request(body, now, "done", 500, NoBody,
                                                        -1, 0, prior))
                        /\ UNCHANGED modelCalls
                   ELSE IF CredentialMissing(apiKey)
                   THEN /\ reqs' = Append(reqs, Request(body, now, "done", 400, NoBody,
                                                        -1, 0, prior))
                        /\ UNCHANGED modelCalls
                   ELSE IF ~Falsy(existing)
                   THEN /\ reqs' = Append(reqs, Request(body, now, "done", 200,
                                       [ linesOfCode     |-> existing.linesOfCode,
                                         timeComplexity  |-> existing.timeComplexity,
                                         spaceComplexity |-> existing.spaceComplexity,
                                         explanation     |-> existing.explanation ],
                                       -1, 0, prior))
                        /\ UNCHANGED modelCalls
                   ELSE /\ reqs' = Append(reqs, Request(body, now, "fetching", 0, NoBody,
                                                        LinesOfBody[body], 1, prior))
                        /\ modelCalls' = modelCalls + 1
        /\ UNCHANGED << now, ticks, apiKey, analyses, currentId, listing, listedAt,
                        normVars, locVars >>

\* The AnalysisResult of request r, given the normalizer's three fields.
ResultOf(r, n) ==
    [ linesOfCode     |-> reqs[r].linesOfCode,
      timeComplexity  |-> n.timeComplexity,
      spaceComplexity |-> n.spaceComplexity,
      explanation     |-> n.explanation ]

\* The object handed to storage.createAnalysis.
InsertOf(r, result) ==
    [ code |-> reqs[r].body.code, language |-> reqs[r].body.language ] @@ result

\* createAnalysis without the increment of currentId.
Persist_SameId(r, result) ==
    /\ analyses' = MapSet(analyses, NewAnalysis(InsertOf(r, result), currentId, now))
    /\ currentId' = currentId
    /\ reqs' = [ reqs EXCEPT ![r].pc = "persisted", ![r].result = result,
                             ![r].created = currentId ]

\* await storage.createAnalysis(...): the record is stored under the next id.
Persist(r, result) ==
    /\ analyses' = MapSet(analyses, NewAnalysis(InsertOf(r, result), currentId, now))
    /\ currentId' = currentId + 1
    /\ reqs' = [ reqs EXCEPT ![r].pc = "persisted", ![r].result = result,
                             ![r].created = currentId ]

\* ModelReturns with one more attempt after a rejected fetch.
ModelReturns_Retry ==
    \E r \in 1..Len(reqs), outcome \in ModelOutcomes :
        \E n \in { NormalizedOutcome[outcome] } :
            /\ reqs[r].pc = "fetching"
            /\ replies' = [ replies EXCEPT ![r] = outcome.kind ]
            /\ IF outcome.kind = "network" /\ reqs[r].calls < 2
               THEN /\ reqs' = [ reqs EXCEPT ![r].calls = @ + 1 ]
                    /\ modelCalls' = modelCalls + 1
                    /\ UNCHANGED << analyses, currentId >>
               ELSE IF outcome.kind = "network" \/ ~outcome.json \/ n.threw
               THEN /\ reqs' = [ reqs EXCEPT ![r].pc = "done", ![r].status = 500,
                                              ![r].responses = @ + 1 ]
                    /\ UNCHANGED << analyses, currentId, modelCalls >>
               ELSE /\ Persist(r, ResultOf(r, n))
                    /\ UNCHANGED modelCalls
            /\ UNCHANGED << now, ticks, apiKey, lastAnalysisAt, listing,
                            listedAt, normVars, locVars >>

\* ModelReturns with the gate's mark cleared when the request fails.
ModelReturns_Rollback ==
    \E r \in 1..Len(reqs), outcome \in ModelOutcomes :
        \E n \in { NormalizedOutcome[outcome] } :
            /\ reqs[r].pc = "fetching"
            /\ replies' = [ replies EXCEPT ![r] = outcome.kind ]
            /\ IF outcome.kind = "network" \/ ~outcome.json \/ n.threw
               THEN /\ reqs' = [ reqs EXCEPT ![r].pc = "done", ![r].status = 500,
                                              ![r].responses = @ + 1 ]
                    /\ lastAnalysisAt' = 0
                    /\ UNCHANGED << analyses, currentId >>
               ELSE /\ Persist(r, ResultOf(r, n))
                    /\ UNCHANGED lastAnalysisAt
            /\ UNCHANGED << now, ticks, apiKey, modelCalls, listing,
                            listedAt, normVars, locVars >>

\* ModelReturns with the normalizer's exception escaping the handler: the
\* handler ends without sending anything.
ModelReturns_Uncaught ==
    \E r \in 1..Len(reqs), outcome \in ModelOutcomes :
        \E n \in { NormalizedOutcome[outcome] } :
            /\ reqs[r].pc = "fetching"
            /\ replies' = [ replies EXCEPT ![r] = outcome.kind ]
            /\ IF outcome.kind = "network" \/ ~outcome.json
               THEN /\ reqs' = [ reqs EXCEPT ![r].pc = "done", ![r].status = 500,
                                              ![r].responses = @ + 1 ]
                    /\ UNCHANGED << analyses, currentId >>
               ELSE IF n.threw
               THEN /\ reqs' = [ reqs EXCEPT ![r].pc = "done" ]
                    /\ UNCHANGED << analyses, currentId >>
               ELSE Persist(r, ResultOf(r, n))
            /\ UNCHANGED << now, ticks, apiKey, lastAnalysisAt, modelCalls, listing,
                            listedAt, normVars, locVars >>

\* The outbound call of request r ends: a rejected fetch, a reply whose body
\* responseAI.json() cannot parse and a throwing normalizer go to the catch
\* block (500); otherwise the record is created.
ModelReturns ==
    \E r \in 1..Len(reqs), outcome \in ModelOutcomes :
        \E n \in { NormalizedOutcome[outcome] } :
            /\ reqs[r].pc = "fetching"
            /\ replies' = [ replies EXCEPT ![r] = outcome.kind ]
            /\ IF outcome.kind = "network" \/ ~outcome.json \/ n.threw
               THEN /\ reqs' = [ reqs EXCEPT ![r].pc = "done", ![r].status = 500,
                                              ![r].responses = @ + 1 ]
                    /\ UNCHANGED << analyses, currentId >>
               ELSE Persist(r, ResultOf(r, n))
            /\ UNCHANGED << now, ticks, apiKey, lastAnalysisAt, modelCalls, listing,
                            listedAt, normVars, locVars >>

\* After the await of createAnalysis: res.json(result).
Respond ==
    \E r \in 1..Len(reqs) :
        /\ reqs[r].pc = "persisted"
        /\ reqs' = [ reqs EXCEPT ![r].pc = "done", ![r].status = 200,
                                  ![r].responses = @ + 1 ]
        /\ UNCHANGED << now, ticks, apiKey, lastAnalysisAt, analyses, currentId,
                        modelCalls, replies, listing, listedAt, normVars, locVars >>

\* GET /api/analyses with the sort applied to the stored sequence itself
\* instead of to a copy of it.
GetAnalyses_SortInPlace ==
    /\ analyses' = SortRecent(analyses)
    /\ listing' = GetRecentAnalyses(analyses, RecentLimit)
    /\ listedAt' = Len(analyses)
    /\ UNCHANGED << now, ticks, apiKey, lastAnalysisAt, currentId, reqs,
                    modelCalls, replies, normVars, locVars >>

\* GET /api/analyses
GetAnalyses ==
    /\ listing' = GetRecentAnalyses(analyses, RecentLimit)
    /\ listedAt' = Len(analyses)
    /\ UNCHANGED << now, ticks, apiKey, lastAnalysisAt, analyses, currentId, reqs,
                    modelCalls, replies, normVars, locVars >>

Next ==
    \/ Tick
    \/ Arrive
    \/ ModelReturns
    \/ Respond
    \/ GetAnalyses

Spec == Init /\ [][Next]_vars

\* ------------------------------------------------------------------------
\* Claims about the server (checked under Spec)
\* ------------------------------------------------------------------------

\* Request i was let through by the rate gate: every response but the gate's
\* own 429 comes from behind it.
PassedGate(i) == reqs[i].status # 429

\* C1: a request whose code was already answered with 200 when it arrived, and
\* which passes the gate, is served from the store: it issues no model call,
\* and its 200 response holds the AnalysisResult of that earlier request.
C1_Idempotent ==
    \A j \in 1..Len(reqs) :
        (reqs[j].prior200 /\ PassedGate(j) /\ ValidBody(reqs[j].body)) =>
            /\ reqs[j].calls = 0
            /\ reqs[j].status = 200 =>
                   \E i \in 1..(j - 1) :
                       /\ reqs[i].body.code = reqs[j].body.code
                       /\ reqs[i].status = 200
                       /\ reqs[i].result = reqs[j].result

\* C2: no two stored records hold the same code string.
C2_UniqueCode ==
    \A i, j \in 1..Len(analyses) :
        i # j => analyses[i].code # analyses[j].code

\* C3: a request is answered 429 exactly when it arrives less than 3000 ms
\* after the arrival of the last request the gate let through before it.
C3_RateGate ==
    \A i \in 1..Len(reqs) :
        LET earlier == { j \in 1..(i - 1) : PassedGate(j) }
        IN  (reqs[i].status = 429) <=>
                /\ earlier # {}
                /\ reqs[i].now - reqs[SetMax(earlier)].now < 3000

\* A first request let through, a second 2999 ms later rejected, and a third
\* 3000 ms after the first let through.
C3_Witness ==
    /\ Len(reqs) = 3
    /\ reqs[1].status # 429
    /\ reqs[2].now = reqs[1].now + 2999
    /\ reqs[2].status = 429
    /\ reqs[3].now = reqs[1].now + 3000
    /\ reqs[3].status # 429

\* C4: without a configured credential, every request with a valid body that
\* passes the gate is answered 400; no model call is made and no record created.
C4_NoCredential ==
    ~apiKey =>
        /\ modelCalls = 0
        /\ analyses = << >>
        /\ \A i \in 1..Len(reqs) :
               (PassedGate(i) /\ ValidBody(reqs[i].body)) =>
                   /\ reqs[i].status = 400
                   /\ reqs[i].calls = 0
                   /\ reqs[i].created = 0

C4_Witness ==
    /\ ~apiKey
    /\ \E i \in 1..Len(reqs) :
           /\ ValidBody(reqs[i].body)
           /\ reqs[i].status = 400
           /\ reqs[i].pc = "done"

\* C5: the listing holds the records stored when it was produced, the most
\* recently created first, cut to the 10 most recent.
C5_NewestFirst ==
    listedAt >= 0 =>
        LET k == IF listedAt < 10 THEN listedAt ELSE 10
        IN  /\ Len(listing) = k
            /\ \A p \in 1..k : listing[p] = analyses[listedAt - p + 1]

\* C12: a request with an invalid body (code or language empty) that passes
\* the gate is answered 400, and causes no model call and no record.
C12_InvalidBody400 ==
    \A i \in 1..Len(reqs) :
        (PassedGate(i) /\ ~ValidBody(reqs[i].body) /\ reqs[i].pc = "done") =>
            /\ reqs[i].status = 400
            /\ reqs[i].calls = 0
            /\ reqs[i].created = 0

\* The requests whose createAnalysis call has returned.
Creators == { i \in 1..Len(reqs) : reqs[i].created > 0 }

\* C13: the ids of the records rise strictly in the order of their creation,
\* no two createAnalysis calls return the same id, also when the requests
\* that issue them overlap, and each returned id is below the counter.
C13_IdsRise ==
    /\ \A i, j \in 1..Len(analyses) : i < j => analyses[i].id < analyses[j].id
    /\ \A i, j \in Creators : i # j => reqs[i].created # reqs[j].created
    /\ \A i \in Creators :
           /\ reqs[i].created < currentId
           /\ \E k \in 1..Len(analyses) :
                  /\ analyses[k].id = reqs[i].created
                  /\ analyses[k].code = reqs[i].body.code
    /\ Len(analyses) = Cardinality(Creators)

\* Two requests in flight at once, the later one stored first, neither
\* answered yet.
C13_Witness ==
    /\ Len(reqs) >= 2
    /\ reqs[1].pc = "persisted"
    /\ reqs[2].pc = "persisted"
    /\ reqs[2].created = 1
    /\ reqs[1].created = 2
    /\ Len(analyses) = 2

\* C14: a request whose outbound call failed in transport (the fetch was
\* rejected, or the provider answered with a status that is not 2xx) is
\* answered 500.
C14_TransportFailure500 ==
    \A i \in 1..Len(reqs) :
        (replies[i] \in { "network", "non2xx" } /\ reqs[i].pc = "done") =>
            reqs[i].status = 500

\* C15: a request whose outbound call the provider rejected for quota is
\* answered 429 and creates no record.
C15_Quota429 ==
    \A i \in 1..Len(reqs) :
        replies[i] = "quota" =>
            /\ reqs[i].created = 0
            /\ reqs[i].pc = "done" => reqs[i].status = 429

\* C16: one request issues at most one outbound call, whatever its outcome;
\* a request answered by the gate, the validation or the credential check
\* issues none; so the calls made are as many as the requests that called.
C16_SingleAttempt ==
    /\ \A i \in 1..Len(reqs) :
           /\ reqs[i].calls \in { 0, 1 }
           /\ replies[i] # "none" => reqs[i].calls = 1
           /\ ( \/ reqs[i].status \in { 429, 400 }
                \/ ~ValidBody(reqs[i].body) ) => reqs[i].calls = 0
    /\ modelCalls = Cardinality({ i \in 1..Len(reqs) : reqs[i].calls = 1 })

\* A request whose call was rejected in transport and that was answered 500
\* after its single call, and a later request rejected by the gate.
C16_Witness ==
    /\ Len(reqs) = 2
    /\ replies[1] = "network"
    /\ reqs[1].status = 500
    /\ reqs[1].calls = 1
    /\ reqs[2].status = 429
    /\ reqs[2].calls = 0
    /\ modelCalls = 1

\* Request i is answered in this step.
Finishes(i) ==
    /\ reqs'[i].pc = "done"
    /\ i > Len(reqs) \/ reqs[i].pc # "done"

\* A request that arrives less than 3000 ms after a request the gate let
\* through is answered 429, however the earlier one ended.
RejectedInsideWindow ==
    \A i, j \in 1..Len(reqs) :
        (i < j /\ PassedGate(i) /\ reqs[j].now - reqs[i].now < 3000) =>
            reqs[j].status = 429

\* C17 as stated: when a request that passed the gate at time t is answered,
\* the gate's mark equals t, and a request arriving less than 3000 ms after a
\* request the gate let through is answered 429.
C17_MarkIsOwnArrival ==
    [][ /\ \A i \in 1..Len(reqs') :
               (Finishes(i) /\ reqs'[i].status # 429) =>
                   lastAnalysisAt' = reqs'[i].now
        /\ RejectedInsideWindow ]_vars

\* C17 as amended: the gate's mark is at all times the arrival time of the
\* latest request the gate let through (0 before the first), whatever became
\* of that request and of those before it; so it is never below the arrival
\* time of a request that passed the gate, and a request arriving less than
\* 3000 ms after one is answered 429.
C17_MarkIsLatestArrival ==
    LET passed == { i \in 1..Len(reqs) : PassedGate(i) }
    IN  /\ lastAnalysisAt = IF passed = {} THEN 0 ELSE reqs[SetMax(passed)].now
        /\ \A i \in passed : lastAnalysisAt >= reqs[i].now
        /\ RejectedInsideWindow

\* A request that passed the gate and failed in the model call, and a request
\* 2999 ms after it that the gate rejects.
C17_Witness ==
    /\ Len(reqs) = 2
    /\ reqs[1].status = 500
    /\ replies[1] = "network"
    /\ reqs[2].now = reqs[1].now + 2999
    /\ reqs[2].status = 429
    /\ lastAnalysisAt = reqs[1].now

\* Request i arrived less than 3000 ms after a request the gate let through.
InsideWindow(i) ==
    \E j \in 1..(i - 1) : PassedGate(j) /\ reqs[i].now - reqs[j].now < 3000

\* C18: the gate decides first, then the validation, then the credential
\* check: a request inside the window is answered 429 whatever its body and
\* the credential; outside it, an invalid body gets the validation outcome
\* (here the 500 of the catch block) also without a credential; a valid body
\* without a credential gets 400; and only a valid body with a credential
\* goes on to the cache lookup and the outbound call.
C18_CheckOrder ==
    \A i \in 1..Len(reqs) :
        /\ InsideWindow(i) => reqs[i].status = 429
        /\ (~InsideWindow(i) /\ ~ValidBody(reqs[i].body)) => reqs[i].status = 500
        /\ (~InsideWindow(i) /\ ValidBody(reqs[i].body) /\ ~apiKey) =>
               reqs[i].status = 400
        /\ (~InsideWindow(i) /\ ValidBody(reqs[i].body) /\ apiKey) =>
               /\ reqs[i].calls = 1
               /\ reqs[i].status \in { 0, 200, 500 }

\* Without a credential: an invalid body outside the window (validation
\* outcome), an invalid body inside it (429), a valid body outside it (400).
C18_Witness ==
    /\ ~apiKey
    /\ Len(reqs) = 3
    /\ ~ValidBody(reqs[1].body) /\ reqs[1].status = 500
    /\ ~ValidBody(reqs[2].body) /\ reqs[2].now = reqs[1].now + 2999
    /\ reqs[2].status = 429
    /\ ValidBody(reqs[3].body) /\ reqs[3].now = reqs[1].now + 3000
    /\ reqs[3].status = 400

\* C19: every request is answered at most once, and exactly once when its
\* handler has ended, with status 200, 400, 429 or 500; a request not yet
\* answered is waiting for the model or for the store; once its outbound call
\* has ended, in whatever way, it has been answered or its record is stored
\* and the answer is the next step; an invalid body is answered at once.
C19_OneResponse ==
    \A i \in 1..Len(reqs) :
        /\ reqs[i].responses <= 1
        /\ reqs[i].responses = 1 <=> reqs[i].pc = "done"
        /\ reqs[i].pc = "done" => reqs[i].status \in { 200, 400, 429, 500 }
        /\ reqs[i].pc # "done" =>
               /\ reqs[i].status = 0
               /\ reqs[i].pc \in { "fetching", "persisted" }
        /\ replies[i] # "none" => reqs[i].pc \in { "done", "persisted" }
        /\ ~ValidBody(reqs[i].body) => reqs[i].pc = "done"

\* A request whose model text made the normalizer throw (500), one rejected
\* by the gate (429) and one answered with its result (200), each answered once.
C19_Witness ==
    /\ Len(reqs) = 3
    /\ replies[1] = "ok" /\ reqs[1].status = 500 /\ reqs[1].responses = 1
    /\ reqs[2].status = 429 /\ reqs[2].responses = 1
    /\ replies[3] = "ok" /\ reqs[3].status = 200 /\ reqs[3].responses = 1

\* Request r gets its record stored in this step.
Stores(r) == reqs[r].pc = "fetching" /\ reqs'[r].pc = "persisted"

\* C20: every step leaves each stored record in its place with all its fields;
\* the records and the id counter change only in the step in which a request
\* stores its record, which appends one record and adds one to the counter;
\* so a listing and a rejected or failed request change neither.
C20_AppendOnly ==
    [][ /\ Len(analyses') >= Len(analyses)
        /\ \A k \in 1..Len(analyses) : analyses'[k] = analyses[k]
        /\ (analyses' # analyses \/ currentId' # currentId) =>
               /\ \E r \in 1..Len(reqs) : Stores(r)
               /\ Len(analyses') = Len(analyses) + 1
               /\ analyses'[Len(analyses')].id = currentId
               /\ currentId' = currentId + 1
        /\ (listing' # listing \/ listedAt' # listedAt) =>
               (analyses' = analyses /\ currentId' = currentId)
        /\ \A i \in 1..Len(reqs') :
               (Finishes(i) /\ reqs'[i].status # 200) =>
                   (analyses' = analyses /\ currentId' = currentId)
      ]_vars

\* Two records stored at different times, a listing made after them and a
\* request rejected by the gate; both records are as they were created.
C20_Witness ==
    /\ Len(analyses) = 2
    /\ analyses[1].id = 1
    /\ analyses[2].id = 2
    /\ analyses[1].createdAt < analyses[2].createdAt
    /\ listedAt = 2
    /\ listing = << analyses[2], analyses[1] >>
    /\ Len(reqs) = 3
    /\ reqs[3].status = 429
    /\ currentId = 3

\* C21: the 200 response of a request that stored a record equals, field by
\* field, the linesOfCode, timeComplexity, spaceComplexity and explanation of
\* the record stored for it.
C21_ResponseIsProjection ==
    \A i \in 1..Len(reqs) :
        (reqs[i].status = 200 /\ reqs[i].created > 0) =>
            \E k \in 1..Len(analyses) :
                /\ analyses[k].id = reqs[i].created
                /\ reqs[i].result.linesOfCode = analyses[k].linesOfCode
                /\ reqs[i].result.timeComplexity = analyses[k].timeComplexity
                /\ reqs[i].result.spaceComplexity = analyses[k].spaceComplexity
                /\ reqs[i].result.explanation = analyses[k].explanation

\* C22: under every interleaving of the requests being handled, with a clock
\* that never runs backwards, two requests that both pass the gate arrived at
\* least 3000 ms apart.
C22_GateAtomic ==
    \A i, j \in 1..Len(reqs) :
        /\ i < j => reqs[i].now <= reqs[j].now
        /\ (i < j /\ PassedGate(i) /\ PassedGate(j)) =>
               reqs[j].now - reqs[i].now >= 3000

\* While the first request is still waiting for the model, a second one
\* arriving in the same millisecond is rejected and a third one 3000 ms later
\* passes; the first and the third are then in flight together.
C22_Witness ==
    /\ Len(reqs) = 3
    /\ reqs[1].pc = "fetching"
    /\ reqs[2].now = reqs[1].now
    /\ ValidBody(reqs[2].body)
    /\ reqs[2].status = 429
    /\ reqs[3].now = reqs[1].now + 3000
    /\ reqs[3].pc = "fetching"

\* ---- normalizer runs ----

InitNorm ==
    /\ NormReady
    /\ SrvIdle
    /\ LocIdle

NextNorm == RunNormalize

SpecNorm == InitNorm /\ [][NextNorm]_vars

\* ------------------------------------------------------------------------
\* Claims about the response normalizer (checked under SpecNorm)
\* ------------------------------------------------------------------------

IsString(v) == v.t = "string"

\* chars holds pat somewhere.
Contains(chars, pat) == \E i \in 1..Len(chars) : HasAt(chars, i, pat)

\* The normalizer returned exactly the three given values.
Returned(tc, sc, ex) ==
    /\ ~normResult.threw
    /\ normResult.timeComplexity = tc
    /\ normResult.spaceComplexity = sc
    /\ normResult.explanation = ex

\* C6: whatever the raw model text, the normalizer does not throw and returns
\* three fields that are all strings.
C6_NeverFails ==
    normPc = "done" =>
        /\ ~normResult.threw
        /\ IsString(normResult.timeComplexity)
        /\ IsString(normResult.spaceComplexity)
        /\ IsString(normResult.explanation)

\* The text is neither a JSON object that carries one of the fields nor text
\* with one of the labels.
NoFieldNoLabel(in) ==
    \/ in.kind \in { "value", "raw" }
    \/ /\ in.kind \in { "object", "labelled" }
       /\ in.timeComplexity = JsUndefined
       /\ in.spaceComplexity = JsUndefined
       /\ in.explanation = JsUndefined

\* C7: for a text without fields and without labels the normalizer returns
\* "O(?)", "O(?)" and the fallback sentence, and does not throw.
C7_FallbackTriple ==
    (normPc = "done" /\ NoFieldNoLabel(normInput)) =>
        Returned(JsStr(<< "O", "(", "?", ")" >>), JsStr(<< "O", "(", "?", ")" >>),
                 JsStr(FallbackExplanation))

AllStrings(in) ==
    /\ IsString(in.timeComplexity)
    /\ IsString(in.spaceComplexity)
    /\ IsString(in.explanation)

\* C8 as stated: a JSON object with the three string fields, inside code
\* fences with or without a tag, comes back as exactly those three values.
C8_AnyFence ==
    ( /\ normPc = "done"
      /\ normInput.kind = "object"
      /\ AllStrings(normInput)
      /\ normInput.wrap \in FenceWraps ) =>
        Returned(normInput.timeComplexity, normInput.spaceComplexity,
                 normInput.explanation)

NoFenceInside(in) ==
    /\ ~Contains(in.timeComplexity.s, Fence)
    /\ ~Contains(in.spaceComplexity.s, Fence)
    /\ ~Contains(in.explanation.s, Fence)

\* C8 as amended: a JSON object with the three string fields, none of which
\* holds a fence marker, inside code fences whose opening fence has no tag or
\* the tag json, comes back as exactly those three values.
C8_JsonFence ==
    ( /\ normPc = "done"
      /\ normInput.kind = "object"
      /\ AllStrings(normInput)
      /\ NoFenceInside(normInput)
      /\ normInput.wrap \in { "fence", "fenceJson" } ) =>
        Returned(normInput.timeComplexity, normInput.spaceComplexity,
                 normInput.explanation)

C8_Witness ==
    /\ normPc = "done"
    /\ normInput.kind = "object"
    /\ normInput.wrap = "fenceJson"
    /\ normInput.timeComplexity = JsStr(<< "O", "(", "n", ")" >>)
    /\ normInput.spaceComplexity = JsStr(<< "O", "(", "1", ")" >>)
    /\ normInput.explanation = JsStr(<< "s", "a", "y", " ", "\"", "h", "i", "\"", "\n", "\\", "o", "k" >>)
    /\ Returned(normInput.timeComplexity, normInput.spaceComplexity,
                normInput.explanation)

\* chars is O( ... ).
BigOForm(chars) ==
    /\ Len(chars) >= 3
    /\ chars[1] = "O"
    /\ chars[2] = "("
    /\ chars[Len(chars)] = ")"

\* C9 as stated: three labelled lines whose complexities are of the form
\* O(...) come back as exactly the texts written after the labels.
C9_AnyBigO ==
    ( /\ normPc = "done"
      /\ normInput.kind = "labelled"
      /\ AllStrings(normInput)
      /\ BigOForm(normInput.timeComplexity.s)
      /\ BigOForm(normInput.spaceComplexity.s) ) =>
        Returned(normInput.timeComplexity, normInput.spaceComplexity,
                 normInput.explanation)

\* chars is O(x) with x not empty and without a closing parenthesis.
SimpleBigO(chars) ==
    /\ BigOForm(chars)
    /\ Len(chars) >= 4
    /\ \A i \in 3..(Len(chars) - 1) : chars[i] # ")"

\* chars is one line, not empty, that neither starts nor ends with whitespace.
TrimmedLine(chars) ==
    /\ chars # << >>
    /\ chars[1] \notin WhiteSpace
    /\ chars[Len(chars)] \notin WhiteSpace
    /\ \A i \in 1..Len(chars) : chars[i] \notin LineTerminators

\* chars holds neither a fence marker nor one of the labels (in any case).
NoFenceNoLabel(chars) ==
    /\ ~Contains(chars, Fence)
    /\ \A lab \in { TimeLabel, SpaceLabel, ExplanationLabel } :
           ~Contains(LowerAll(chars), LowerAll(lab))

\* C9 as amended: three labelled lines come back as exactly the texts after
\* the labels when the complexities are O(x) with x not empty and free of ")",
\* the explanation is one non-empty line without whitespace at its ends, and
\* none of the three holds a fence marker or a label.
C9_SimpleBigO ==
    ( /\ normPc = "done"
      /\ normInput.kind = "labelled"
      /\ AllStrings(normInput)
      /\ SimpleBigO(normInput.timeComplexity.s)
      /\ SimpleBigO(normInput.spaceComplexity.s)
      /\ TrimmedLine(normInput.explanation.s)
      /\ NoFenceNoLabel(normInput.timeComplexity.s)
      /\ NoFenceNoLabel(normInput.spaceComplexity.s)
      /\ NoFenceNoLabel(normInput.explanation.s) ) =>
        Returned(normInput.timeComplexity, normInput.spaceComplexity,
                 normInput.explanation)

C9_Witness ==
    /\ normPc = "done"
    /\ normInput.kind = "labelled"
    /\ normInput.timeComplexity = JsStr(<< "O", "(", "n", " ", "l", "o", "g", " ", "n", ")" >>)
    /\ normInput.spaceComplexity = JsStr(<< "O", "(", "n", ")" >>)
    /\ normInput.explanation = JsStr(<< "m", "e", "r", "g", "e", " ", "s", "o", "r", "t" >>)
    /\ Returned(normInput.timeComplexity, normInput.spaceComplexity,
                normInput.explanation)

\* ---- line counter runs ----

InitLoc ==
    /\ locInput \in LocInputs
    /\ locCode = JoinLines(locInput)
    /\ locResult = -1
    /\ locPc = "ready"
    /\ SrvIdle
    /\ NormIdle

RunCountLines ==
    /\ locPc = "ready"
    /\ locResult' = CountLines(locCode)
    /\ locPc' = "done"
    /\ UNCHANGED << locInput, locCode, srvVars, normVars >>

NextLoc == RunCountLines

SpecLoc == InitLoc /\ [][NextLoc]_vars

\* ------------------------------------------------------------------------
\* Claims about the line counter (checked under SpecLoc)
\* ------------------------------------------------------------------------

\* C10: when every line of the code is blank or starts, after its leading
\* whitespace, with one of //, #, /*, *, */, the line counter returns 0.
AllLinesBlankOrComment ==
    \A i \in 1..Len(locInput) : locInput[i].core \in CommentCores \cup { << >> }

C10_ZeroCase ==
    (locPc = "done" /\ AllLinesBlankOrComment) => locResult = 0

C10_Witness ==
    /\ locPc = "done"
    /\ AllLinesBlankOrComment
    /\ Len(locInput) = 2
    /\ locInput[1].core = << "#", "x" >>
    /\ locInput[2].core = << "*", " ", "c" >>
    /\ locResult = 0

\* The lines of the input that are code: not blank and not opened by a prefix.
CodeLines == { i \in 1..Len(locInput) : locInput[i].core \in CodeCores }

\* C11: linesOfCode is the number of lines that are not empty after trimming
\* and start with none of //, #, /*, *, */; so a code of k lines that are all
\* such lines has linesOfCode = k.
C11_FullCase ==
    locPc = "done" =>
        /\ locResult = Cardinality(CodeLines)
        /\ Cardinality(CodeLines) = Len(locInput) => locResult = Len(locInput)

C11_Witness ==
    /\ locPc = "done"
    /\ Len(locInput) = 2
    /\ locInput[1].core = << "a", " ", "/", "/", "b" >>
    /\ locInput[1].lead = << " ", "\t" >>
    /\ locInput[2].core = << "x", "*", "/" >>
    /\ locInput[2].trail = << "\r" >>
    /\ locResult = 2

====
